---- MODULE Spec2Model ----
(***************************************************************************)
(* bvg-board: the response-validation and domain-mapping layer of          *)
(* bvg_board/bvg_api.py and bvg_board/weather.py, the config file of       *)
(* bvg_board/config.py and the commands of bvg_board/cli.py.  Decoded JSON *)
(* and TOML values are tagged records [t |-> tag, v |-> payload]; every    *)
(* mapping operation is an operator from such a value to either Ok(record) *)
(* or Raise(kind, message), computed in the order in which the Python code *)
(* evaluates its sub-expressions.  Spec constructs a client, runs one of    *)
(* its methods on one response and closes it; SpecCli runs one command     *)
(* from its command line to its exit; SpecPackage is either use.           *)
(***************************************************************************)
EXTENDS Integers, Sequences, FiniteSets, TLC

VARIABLES
    op,        \* the client method called: "nearby", "stop", "departures" or
               \* "current_weather"
    response,  \* what the HTTP layer delivers: a decoded JSON value or HttpError
    result,    \* Ok(domain value) or Raise(kind, message) once the call returned
    pc,        \* "call" before the method ran, "done" after, "closed" once
               \* the caller closed the client
    argv,          \* the command line: the command and its options
    config_file,   \* the file at config_path()
    cfg,           \* what load_config returned, NoResult before it ran
    cli_pc,        \* where the command stands
    refresh_seconds,  \* watch: the interval of the loop
    visible_stops, \* nearby: the stops it displayed
    clients,       \* the BvgClient and the WeatherClient in use
    refreshes,     \* watch: completed rounds of the loop, counted up to MaxRefreshes
    console,       \* what the command printed
    exit_code      \* the exit status, once cli_pc = "exited"

apiVars == <<op, response, result, pc>>
cliVars ==
    <<argv, config_file, cfg, cli_pc, refresh_seconds, visible_stops, clients,
      refreshes, console, exit_code>>
vars == <<apiVars, cliVars>>

(***************************************************************************)
(* Decoded JSON values as Python objects.                                  *)
(* A float is held in tenths (52.5 is JFloat(525)); inf, -inf and nan,     *)
(* which json.loads yields for Infinity, 1e999 and NaN, are "nonfinite";   *)
(* "hugeint" is a Python int beyond the range of a float (such as 10**400).*)
(***************************************************************************)
Null == [t |-> "null", v |-> 0]
JBool(b) == [t |-> "bool", v |-> b]
JInt(n) == [t |-> "int", v |-> n]
JHuge(sign) == [t |-> "hugeint", v |-> sign]
JFloat(tenths) == [t |-> "float", v |-> tenths]
JNonFinite(which) == [t |-> "nonfinite", v |-> which]
JStr(s) == [t |-> "str", v |-> s]
JList(items) == [t |-> "list", v |-> items]
Absent == [t |-> "absent", v |-> 0]
\* An object from a record of fields; a field given as Absent is left out.
JObj(fields) ==
    [t |-> "obj",
     v |-> [k \in {f \in DOMAIN fields : fields[f].t # "absent"} |-> fields[k]]]
\* the object with one more field: data[key] = value
With(data, key, value) ==
    [t |-> "obj",
     v |-> [k \in DOMAIN data.v \cup {key} |->
               IF k = key THEN value ELSE data.v[k]]]

EmptyObj == JObj([unused |-> Absent])
HttpError == [t |-> "httperror", v |-> 0]

Ok(val) == [t |-> "ok", v |-> val]
Raise(kind, msg) == [t |-> "raise", v |-> [kind |-> kind, msg |-> msg]]
IsOk(r) == r.t = "ok"
IsRaise(r) == r.t = "raise"
NoResult == [t |-> "none", v |-> 0]

\* isinstance(x, dict), isinstance(x, list), isinstance(x, str)
IsDict(x) == x.t = "obj"
IsList(x) == x.t = "list"
IsStr(x) == x.t = "str"
\* isinstance(x, int): bool is a subclass of int in Python
IsInt(x) == x.t \in {"bool", "int", "hugeint"}
\* isinstance(x, int | float)
IsIntOrFloat(x) == x.t \in {"bool", "int", "hugeint", "float", "nonfinite"}

\* dict.get(key): None when the key is missing
Get(data, key) == IF key \in DOMAIN data.v THEN data.v[key] ELSE Null

\* Python truth value of a decoded JSON value (nan is truthy)
Truthy(x) ==
    CASE x.t = "null" -> FALSE
      [] x.t = "bool" -> x.v
      [] x.t = "int" -> x.v # 0
      [] x.t = "float" -> x.v # 0
      [] x.t = "str" -> x.v # ""
      [] x.t = "list" -> Len(x.v) > 0
      [] x.t = "obj" -> DOMAIN x.v # {}
      [] OTHER -> TRUE

\* a or b
PyOr(a, b) == IF Truthy(a) THEN a ELSE b

\* int(x) for x an int or a float: truncation toward zero; int(inf) raises
\* OverflowError and int(nan) raises ValueError.
\* A division that rounds toward minus infinity instead of toward zero.
FloorTenths(x) == x.v \div 10
\* the integer part of a float held in tenths, as int() takes it
TruncTenths(x) == IF x.v >= 0 THEN x.v \div 10 ELSE -((-x.v) \div 10)
py_int(x) ==
    CASE x.t = "bool" -> Ok(JInt(IF x.v THEN 1 ELSE 0))
      [] x.t = "int" -> Ok(x)
      [] x.t = "hugeint" -> Ok(x)
      [] x.t = "float" -> Ok(JInt(TruncTenths(x)))
      [] x.t = "nonfinite" ->
            IF x.v = "nan"
            THEN Raise("ValueError", "cannot convert float NaN to integer")
            ELSE Raise("OverflowError", "cannot convert float infinity to integer")

\* float(x) for x an int or a float: float(10**400) raises OverflowError.
py_float(x) ==
    CASE x.t = "bool" -> Ok(JFloat(IF x.v THEN 10 ELSE 0))
      [] x.t = "int" -> Ok(JFloat(x.v * 10))
      [] x.t = "hugeint" -> Raise("OverflowError", "int too large to convert to float")
      [] x.t = "float" -> Ok(x)
      [] x.t = "nonfinite" -> Ok(x)

\* str.lower() on the strings the model uses
py_lower(s) ==
    CASE s \in {"station", "STATION", "Station"} -> "station"
      [] s \in {"stop", "STOP", "Stop"} -> "stop"
      [] s \in {"bogus", "BOGUS"} -> "bogus"
      [] OTHER -> s

(***************************************************************************)
(* Field extractors of bvg_api.py                                          *)
(***************************************************************************)
as_str(value, key) ==
    IF IsStr(value) THEN Ok(value)
    ELSE Raise("BvgApiError", key \o " must be a string")

as_optional_str(value, key) ==
    IF value.t = "null" THEN Ok(Null)
    ELSE IF IsStr(value) THEN Ok(value)
    ELSE Raise("BvgApiError", key \o " must be a string")

as_float(value, key) ==
    IF IsIntOrFloat(value) THEN py_float(value)
    ELSE Raise("BvgApiError", key \o " must be a number")

as_optional_int(value, key) ==
    IF value.t = "null" THEN Ok(Null)
    ELSE IF IsInt(value) THEN Ok(value)
    ELSE Raise("BvgApiError", key \o " must be an integer")

parse_location(data, key) ==
    IF ~IsDict(data) THEN Raise("BvgApiError", key \o " must be an object")
    ELSE LET latitude == as_float(Get(data, "latitude"), key \o ".latitude")
             longitude == as_float(Get(data, "longitude"), key \o ".longitude")
         IN  IF IsRaise(latitude) THEN latitude
             ELSE IF IsRaise(longitude) THEN longitude
             ELSE Ok([latitude |-> latitude.v, longitude |-> longitude.v])

\* A comparison that forgets to fold the case.
parse_stop_kind_case_sensitive(value) ==
    IF ~IsStr(value) THEN "stop"
    ELSE IF value.v \in {"station", "stop"} THEN value.v ELSE "stop"

parse_stop_kind(value) ==
    IF ~IsStr(value) THEN "stop"
    ELSE LET normalized == py_lower(value.v)
         IN  IF normalized \in {"station", "stop"} THEN normalized ELSE "stop"

\* the value parse_stop hands to parse_stop_kind
stop_kind_source(data) == PyOr(Get(data, "locationType"), Get(data, "type"))

\* distance_m = int(distance_value) if isinstance(distance_value, int | float) else None
stop_distance(distance_value) ==
    IF IsIntOrFloat(distance_value) THEN py_int(distance_value) ELSE Ok(Null)

parse_stop(data) ==
    IF ~IsDict(data) THEN Raise("BvgApiError", "Stop entry must be an object")
    ELSE LET stop_id == as_str(Get(data, "id"), "stop.id")
             name == as_str(Get(data, "name"), "stop.name")
             kind == parse_stop_kind(stop_kind_source(data))
             location == parse_location(Get(data, "location"), "stop.location")
             distance_m == stop_distance(Get(data, "distance"))
         IN  IF IsRaise(stop_id) THEN stop_id
             ELSE IF IsRaise(name) THEN name
             ELSE IF IsRaise(location) THEN location
             ELSE IF IsRaise(distance_m) THEN distance_m
             ELSE Ok([id |-> stop_id.v, name |-> name.v, kind |-> kind,
                      location |-> location.v, distance_m |-> distance_m.v])

\* datetime.fromisoformat(value) on the strings the model uses: a timestamp
\* with an explicit offset, a second one, a zone-naive one (utcoffset None);
\* every other string raises ValueError.
py_fromisoformat(s) ==
    CASE s = "2026-02-08T20:30:00+01:00" ->
            Ok([day |-> "2026-02-08", minute |-> 1230, utcoffset |-> JInt(60)])
      [] s = "2026-02-08T20:28:00+01:00" ->
            Ok([day |-> "2026-02-08", minute |-> 1228, utcoffset |-> JInt(60)])
      [] s = "2026-02-08T20:31:00" ->
            Ok([day |-> "2026-02-08", minute |-> 1231, utcoffset |-> Null])
      [] OTHER -> Raise("ValueError", "Invalid isoformat string: " \o s)

parse_datetime(value) ==
    IF ~IsStr(value)
    THEN Raise("BvgApiError", "departure.when must be an ISO datetime string")
    ELSE LET parsed == py_fromisoformat(value.v)
         IN  IF IsRaise(parsed)
             THEN Raise("BvgApiError", "Invalid datetime in departure: " \o value.v)
             ELSE parsed

\* the for loop of _parse_remarks from item i on, messages collected so far
RECURSIVE remarks_loop(_, _, _)
remarks_loop(items, i, messages) ==
    IF i > Len(items) THEN messages
    ELSE LET item == items[i]
             keep == IF IsDict(item) THEN IsStr(Get(item, "summary")) ELSE FALSE
         IN  remarks_loop(items, i + 1,
                 IF keep THEN Append(messages, Get(item, "summary").v) ELSE messages)

\* A strict reading: the first item that is not an object with a string
\* summary ends the collection.
parse_remarks_until_malformed(value) ==
    IF ~IsList(value) THEN <<>>
    ELSE LET items == value.v
             ok(i) == IF IsDict(items[i]) THEN IsStr(Get(items[i], "summary"))
                      ELSE FALSE
             n == Cardinality({i \in 1..Len(items) : \A j \in 1..i : ok(j)})
         IN  [i \in 1..n |-> Get(items[i], "summary").v]

parse_remarks(value) ==
    IF ~IsList(value) THEN <<>> ELSE remarks_loop(value.v, 1, <<>>)

\* A default taken by truthiness: an empty name counts as no name.
departure_line_name_truthy(line_obj) ==
    IF IsDict(line_obj)
    THEN LET maybe_line_name == Get(line_obj, "name")
         IN  IF IsStr(maybe_line_name) /\ Truthy(maybe_line_name)
             THEN maybe_line_name.v ELSE "?"
    ELSE "?"

\* lines 153-158 of _parse_departure
departure_line_name(line_obj) ==
    IF IsDict(line_obj)
    THEN LET maybe_line_name == Get(line_obj, "name")
         IN  IF IsStr(maybe_line_name) THEN maybe_line_name.v ELSE "?"
    ELSE "?"

\* The fallback the other way round: the planned time first.
departure_when_raw_planned_first(data) ==
    PyOr(Get(data, "plannedWhen"), Get(data, "when"))

\* A lenient fallback: a `when` that does not parse gives way to the planned
\* time as well.
departure_when_raw_first_parsable(data) ==
    LET when == Get(data, "when")
        usable == IF IsStr(when) THEN IsOk(py_fromisoformat(when.v)) ELSE FALSE
    IN  IF usable THEN when ELSE PyOr(Get(data, "plannedWhen"), when)

\* when_raw = data.get("when") or data.get("plannedWhen")
departure_when_raw(data) == PyOr(Get(data, "when"), Get(data, "plannedWhen"))

parse_departure(data) ==
    IF ~IsDict(data) THEN Raise("BvgApiError", "Departure entry must be an object")
    ELSE LET line_name == departure_line_name(Get(data, "line"))
             direction == as_str(Get(data, "direction"), "departure.direction")
             when == parse_datetime(departure_when_raw(data))
             delay_seconds == as_optional_int(Get(data, "delay"), "departure.delay")
             platform == as_optional_str(Get(data, "platform"), "departure.platform")
             remarks == parse_remarks(Get(data, "remarks"))
         IN  IF IsRaise(direction) THEN direction
             ELSE IF IsRaise(when) THEN when
             ELSE IF IsRaise(delay_seconds) THEN delay_seconds
             ELSE IF IsRaise(platform) THEN platform
             ELSE Ok([line_name |-> line_name, direction |-> direction.v,
                      when |-> when.v, delay_seconds |-> delay_seconds.v,
                      platform |-> platform.v, remarks |-> remarks])

(***************************************************************************)
(* BvgClient                                                               *)
(***************************************************************************)
\* _get_json: an httpx.HTTPError becomes BvgApiError, otherwise the decoded body
get_json(resp) ==
    IF resp.t = "httperror" THEN Raise("BvgApiError", "BVG API request failed")
    ELSE Ok(resp)

\* [_parse_stop(item) for item in raw]: the first element that raises ends
\* the comprehension with its exception.
parse_stops(items) ==
    LET parsed == [i \in 1..Len(items) |-> parse_stop(items[i])]
        bad == {i \in 1..Len(items) : IsRaise(parsed[i])}
    IN  IF bad = {} THEN Ok([i \in 1..Len(items) |-> parsed[i].v])
        ELSE parsed[CHOOSE i \in bad : \A j \in bad : i <= j]

\* A comprehension that skips the elements that do not parse instead of failing.
parse_departures_skipping(items) ==
    LET good == SelectSeq(items, LAMBDA item : IsOk(parse_departure(item)))
    IN  Ok([i \in 1..Len(good) |-> parse_departure(good[i]).v])

\* [_parse_departure(item) for item in items]
parse_departures(items) ==
    LET parsed == [i \in 1..Len(items) |-> parse_departure(items[i])]
        bad == {i \in 1..Len(items) : IsRaise(parsed[i])}
    IN  IF bad = {} THEN Ok([i \in 1..Len(items) |-> parsed[i].v])
        ELSE parsed[CHOOSE i \in bad : \A j \in bad : i <= j]

nearby(resp) ==
    LET raw == get_json(resp)
    IN  IF IsRaise(raw) THEN raw
        ELSE IF ~IsList(raw.v)
        THEN Raise("BvgApiError", "Unexpected response shape for nearby locations")
        ELSE parse_stops(raw.v.v)

stop(resp) ==
    LET raw == get_json(resp)
    IN  IF IsRaise(raw) THEN raw
        ELSE IF ~IsDict(raw.v)
        THEN Raise("BvgApiError", "Unexpected response shape for stop details")
        ELSE parse_stop(raw.v)

departures(resp) ==
    LET raw == get_json(resp)
    IN  IF IsRaise(raw) THEN raw
        ELSE IF ~IsDict(raw.v)
        THEN Raise("BvgApiError", "Unexpected response shape for departures")
        ELSE LET items == Get(raw.v, "departures")
             IN  IF ~IsList(items)
                 THEN Raise("BvgApiError",
                            "Departures payload is missing the departures list")
                 ELSE parse_departures(items.v)

(***************************************************************************)
(* weather.py: the field extractors and WeatherClient.current_weather      *)
(***************************************************************************)
weather_as_float(value, key) ==
    IF IsIntOrFloat(value) THEN py_float(value)
    ELSE Raise("WeatherApiError", key \o " must be a number")

weather_as_optional_float(value, key) ==
    IF value.t = "null" THEN Ok(Null)
    ELSE IF IsIntOrFloat(value) THEN py_float(value)
    ELSE Raise("WeatherApiError", key \o " must be a number")

weather_as_optional_int(value, key) ==
    IF value.t = "null" THEN Ok(Null)
    ELSE IF IsInt(value) THEN Ok(value)
    ELSE Raise("WeatherApiError", key \o " must be an integer")

\* bool(value) for value an int
py_bool(value) ==
    CASE value.t = "bool" -> value
      [] value.t = "int" -> JBool(value.v # 0)
      [] value.t = "hugeint" -> JBool(TRUE)

\* A coercion that takes only 1 for true.
weather_as_optional_bool_only_one(value, key) ==
    IF value.t = "null" THEN Ok(Null)
    ELSE IF value.t = "bool" THEN Ok(value)
    ELSE IF IsInt(value) THEN Ok(JBool(value = JInt(1)))
    ELSE Raise("WeatherApiError", key \o " must be a boolean")

weather_as_optional_bool(value, key) ==
    IF value.t = "null" THEN Ok(Null)
    ELSE IF value.t = "bool" THEN Ok(value)
    ELSE IF IsInt(value) THEN Ok(py_bool(value))
    ELSE Raise("WeatherApiError", key \o " must be a boolean")

\* WeatherClient._get_json
weather_get_json(resp) ==
    IF resp.t = "httperror" THEN Raise("WeatherApiError", "Open-Meteo request failed")
    ELSE Ok(resp)

current_weather(resp) ==
    LET payload == weather_get_json(resp)
    IN  IF IsRaise(payload) THEN payload
        ELSE IF ~IsDict(payload.v)
        THEN Raise("WeatherApiError", "Unexpected weather response shape")
        ELSE LET current == Get(payload.v, "current")
             IN  IF ~IsDict(current)
                 THEN Raise("WeatherApiError",
                            "Weather payload is missing current weather data")
                 ELSE LET temperature_c ==
                              weather_as_float(Get(current, "temperature_2m"),
                                               "current.temperature_2m")
                          apparent_temperature_c ==
                              weather_as_optional_float(
                                  Get(current, "apparent_temperature"),
                                  "current.apparent_temperature")
                          wind_speed_kmh ==
                              weather_as_optional_float(
                                  Get(current, "wind_speed_10m"),
                                  "current.wind_speed_10m")
                          weather_code ==
                              weather_as_optional_int(Get(current, "weather_code"),
                                                      "current.weather_code")
                          is_day ==
                              weather_as_optional_bool(Get(current, "is_day"),
                                                       "current.is_day")
                      IN  IF IsRaise(temperature_c) THEN temperature_c
                          ELSE IF IsRaise(apparent_temperature_c)
                          THEN apparent_temperature_c
                          ELSE IF IsRaise(wind_speed_kmh) THEN wind_speed_kmh
                          ELSE IF IsRaise(weather_code) THEN weather_code
                          ELSE IF IsRaise(is_day) THEN is_day
                          ELSE Ok([temperature_c |-> temperature_c.v,
                                   apparent_temperature_c |->
                                       apparent_temperature_c.v,
                                   wind_speed_kmh |-> wind_speed_kmh.v,
                                   weather_code |-> weather_code.v,
                                   is_day |-> is_day.v])

(***************************************************************************)
(* config.py: the TOML file of defaults.  A text is the sequence of its    *)
(* characters; a run of characters that no rule of the TOML grammar or of  *)
(* the escaping singles out (a key, a section header, the letters of a     *)
(* URL, " = ") is kept as one element.                                     *)
(***************************************************************************)
DEFAULT_BVG_BASE_URL == "https://v6.bvg.transport.rest"
DEFAULT_WEATHER_BASE_URL == "https://api.open-meteo.com"
DEFAULT_WATCH_INTERVAL_SECONDS == 30

AppConfig(stop_id, latitude, longitude, interval, bvg_url, weather_url) ==
    [default_stop_id |-> stop_id, default_latitude |-> latitude,
     default_longitude |-> longitude, watch_interval_seconds |-> interval,
     bvg_base_url |-> bvg_url, weather_base_url |-> weather_url]

\* AppConfig()
DefaultAppConfig ==
    AppConfig(Null, Null, Null, JInt(DEFAULT_WATCH_INTERVAL_SECONDS),
              JStr(DEFAULT_BVG_BASE_URL), JStr(DEFAULT_WEATHER_BASE_URL))

\* the characters of the strings the model uses
py_chars(s) ==
    CASE s = "" -> <<>>
      [] s = "a\nb" -> <<"a", "\n", "b">>
      [] s = "a\"b\\c" -> <<"a", "\"", "b", "\\", "c">>
      [] s = "http://h/\n" -> <<"http://h/", "\n">>
      [] OTHER -> <<s>>

RECURSIVE py_join(_)
py_join(chars) ==
    IF chars = <<>> THEN "" ELSE Head(chars) \o py_join(Tail(chars))

\* value.replace("\\", "\\\\").replace('"', '\\"'), character by character
RECURSIVE escape_chars(_)
escape_chars(chars) ==
    IF chars = <<>> THEN <<>>
    ELSE (CASE Head(chars) = "\\" -> <<"\\", "\\">>
            [] Head(chars) = "\"" -> <<"\\", "\"">>
            [] OTHER -> <<Head(chars)>>)
         \o escape_chars(Tail(chars))

escape_toml_string(value) == escape_chars(py_chars(value))

DecimalDigits == <<"0", "1", "2", "3", "4", "5", "6", "7", "8", "9">>

\* str(n) for n >= 0
RECURSIVE py_str_nat(_)
py_str_nat(n) ==
    IF n < 10 THEN <<DecimalDigits[n + 1]>>
    ELSE py_str_nat(n \div 10) \o <<DecimalDigits[(n % 10) + 1]>>

\* f"{x}" for a number of an AppConfig: repr of a float, str of an int or bool
py_format(x) ==
    CASE x.t = "float" ->
            LET magnitude == IF x.v < 0 THEN -x.v ELSE x.v
            IN  (IF x.v < 0 THEN <<"-">> ELSE <<>>)
                    \o py_str_nat(magnitude \div 10) \o <<".">>
                    \o py_str_nat(magnitude % 10)
      [] x.t = "int" ->
            IF x.v < 0 THEN <<"-">> \o py_str_nat(-x.v) ELSE py_str_nat(x.v)
      [] x.t = "bool" -> <<IF x.v THEN "True" ELSE "False">>
      [] x.t = "nonfinite" -> <<x.v>>

render_config(config) ==
    <<"[defaults]", "\n", "stop_id", " = ", "\"">>
        \o escape_toml_string(PyOr(config.default_stop_id, JStr("")).v)
        \o <<"\"", "\n", "latitude", " = ">>
        \o py_format(IF config.default_latitude.t # "null"
                     THEN config.default_latitude ELSE JFloat(0))
        \o <<"\n", "longitude", " = ">>
        \o py_format(IF config.default_longitude.t # "null"
                     THEN config.default_longitude ELSE JFloat(0))
        \o <<"\n", "watch_interval_seconds", " = ">>
        \o py_format(config.watch_interval_seconds)
        \o <<"\n", "\n", "[api]", "\n", "bvg_base_url", " = ", "\"">>
        \o escape_toml_string(config.bvg_base_url.v)
        \o <<"\"", "\n", "weather_base_url", " = ", "\"">>
        \o escape_toml_string(config.weather_base_url.v)
        \o <<"\"", "\n">>

\* tomllib.loads: the text is cut into lines at every line feed
RECURSIVE toml_lines(_, _)
toml_lines(text, line) ==
    IF text = <<>> THEN <<line>>
    ELSE IF Head(text) = "\n" THEN <<line>> \o toml_lines(Tail(text), <<>>)
    ELSE toml_lines(Tail(text), Append(line, Head(text)))

TomlError(msg) == Raise("TOMLDecodeError", msg)

IsDigits(chars) ==
    /\ chars # <<>>
    /\ \A i \in 1..Len(chars) : \E d \in 1..10 : chars[i] = DecimalDigits[d]

DigitValue(c) == (CHOOSE d \in 1..10 : DecimalDigits[d] = c) - 1

RECURSIVE toml_nat(_)
toml_nat(chars) ==
    IF Len(chars) = 1 THEN DigitValue(chars[1])
    ELSE 10 * toml_nat(SubSeq(chars, 1, Len(chars) - 1))
            + DigitValue(chars[Len(chars)])

\* the characters after the opening quote of a basic string
RECURSIVE toml_basic_string(_, _)
toml_basic_string(chars, parsed) ==
    IF chars = <<>> THEN TomlError("Illegal character '\\n'")
    ELSE IF Head(chars) = "\""
    THEN IF Tail(chars) = <<>> THEN Ok(JStr(parsed))
         ELSE TomlError("Expected newline or end of document after a statement")
    ELSE IF Head(chars) = "\\"
    THEN IF Len(chars) < 2 THEN TomlError("Unescaped '\\' in a string")
         ELSE IF chars[2] \in {"\"", "\\"}
         THEN toml_basic_string(SubSeq(chars, 3, Len(chars)), parsed \o chars[2])
         ELSE IF chars[2] = "n"
         THEN toml_basic_string(SubSeq(chars, 3, Len(chars)), parsed \o "\n")
         ELSE TomlError("Unescaped '\\' in a string")
    ELSE toml_basic_string(Tail(chars), parsed \o Head(chars))

\* a number: an integer, or a float with one fractional digit (the floats of
\* the model are held in tenths)
toml_number(chars) ==
    LET negative == Head(chars) = "-"
        digits == IF Head(chars) \in {"-", "+"} THEN Tail(chars) ELSE chars
        sign == IF negative THEN -1 ELSE 1
        leading_zero == IF Len(digits) > 1
                        THEN digits[1] = "0" /\ digits[2] # "." ELSE FALSE
    IN  IF leading_zero THEN TomlError("Invalid value")
        ELSE IF IsDigits(digits) THEN Ok(JInt(sign * toml_nat(digits)))
        ELSE IF Len(digits) >= 3
        THEN LET whole == SubSeq(digits, 1, Len(digits) - 2)
                 fraction == <<digits[Len(digits)]>>
             IN  IF /\ digits[Len(digits) - 1] = "."
                    /\ IsDigits(whole) /\ IsDigits(fraction)
                 THEN Ok(JFloat(sign * (10 * toml_nat(whole)
                                           + toml_nat(fraction))))
                 ELSE TomlError("Invalid value")
        ELSE TomlError("Invalid value")

toml_value(chars) ==
    IF chars = <<>> THEN TomlError("Invalid value")
    ELSE IF Head(chars) = "\"" THEN toml_basic_string(Tail(chars), "")
    ELSE IF chars = <<"true">> THEN Ok(JBool(TRUE))
    ELSE IF chars = <<"false">> THEN Ok(JBool(FALSE))
    ELSE IF chars \in {<<"inf">>, <<"-inf">>, <<"nan">>}
    THEN Ok(JNonFinite(chars[1]))
    ELSE toml_number(chars)

BareKeys ==
    {"stop_id", "latitude", "longitude", "watch_interval_seconds",
     "bvg_base_url", "weather_base_url", "defaults", "api"}

\* the statements of a document, line by line; `table` is the table the keys go
\* to ("" before the first header)
RECURSIVE toml_statements(_, _, _)
toml_statements(lines, table, doc) ==
    IF lines = <<>> THEN Ok(doc)
    ELSE LET line == Head(lines)
         IN  IF line = <<>> THEN toml_statements(Tail(lines), table, doc)
             ELSE IF line \in {<<"[defaults]">>, <<"[api]">>}
             THEN LET name == IF line = <<"[defaults]">> THEN "defaults"
                              ELSE "api"
                  IN  IF name \in DOMAIN doc.v
                      THEN TomlError("Cannot declare a table twice")
                      ELSE toml_statements(Tail(lines), name,
                                           With(doc, name, EmptyObj))
             ELSE IF Len(line) < 2 THEN TomlError("Invalid statement")
             ELSE IF line[1] \notin BareKeys \/ line[2] # " = "
             THEN TomlError("Invalid statement")
             ELSE LET value == toml_value(SubSeq(line, 3, Len(line)))
                      target == IF table = "" THEN doc ELSE doc.v[table]
                  IN  IF IsRaise(value) THEN value
                      ELSE IF line[1] \in DOMAIN target.v
                      THEN TomlError("Cannot overwrite a value")
                      ELSE toml_statements(
                               Tail(lines), table,
                               IF table = "" THEN With(doc, line[1], value.v)
                               ELSE With(doc, table,
                                         With(target, line[1], value.v)))

toml_loads(text) == toml_statements(toml_lines(text, <<>>), "", EmptyObj)

config_as_dict(value) ==
    IF value.t = "null" THEN Ok(EmptyObj)
    ELSE IF IsDict(value) THEN Ok(value)
    ELSE Raise("ValueError", "Expected a TOML table")

config_as_optional_str(value, key) ==
    IF value.t = "null" THEN Ok(Null)
    ELSE IF IsStr(value) THEN Ok(value)
    ELSE Raise("ValueError", key \o " must be a string")

config_as_optional_float(value, key) ==
    IF value.t = "null" THEN Ok(Null)
    ELSE IF IsIntOrFloat(value) THEN py_float(value)
    ELSE Raise("ValueError", key \o " must be a number")

config_as_int(value, key) ==
    IF value.t = "null" THEN Ok(Null)
    ELSE IF IsInt(value) THEN Ok(value)
    ELSE Raise("ValueError", key \o " must be an integer")

\* the value of a Python int in a comparison (True is 1, False is 0)
int_value(x) == IF x.t = "bool" THEN (IF x.v THEN 1 ELSE 0) ELSE x.v

\* a config file: whether it exists, and its text
NoFile == [exists |-> FALSE, text |-> <<>>]
File(text) == [exists |-> TRUE, text |-> text]

\* A load that takes any integer as the interval.
load_config_any_interval(path) ==
    IF ~path.exists THEN Ok(DefaultAppConfig)
    ELSE LET content == toml_loads(path.text)
             defaults == config_as_dict(Get(content.v, "defaults"))
             watch_interval ==
                 config_as_int(Get(defaults.v, "watch_interval_seconds"),
                               "defaults.watch_interval_seconds")
         IN  IF IsRaise(content) THEN content
             ELSE IF IsRaise(defaults) THEN defaults
             ELSE IF IsRaise(watch_interval) THEN watch_interval
             ELSE Ok(AppConfig(Null, Null, Null,
                               IF watch_interval.v.t = "null"
                               THEN JInt(DEFAULT_WATCH_INTERVAL_SECONDS)
                               ELSE watch_interval.v,
                               JStr(DEFAULT_BVG_BASE_URL),
                               JStr(DEFAULT_WEATHER_BASE_URL)))

load_config(path) ==
    IF ~path.exists THEN Ok(DefaultAppConfig)
    ELSE LET content == toml_loads(path.text)
             defaults == config_as_dict(Get(content.v, "defaults"))
             api == config_as_dict(Get(content.v, "api"))
             watch_interval ==
                 config_as_int(Get(defaults.v, "watch_interval_seconds"),
                               "defaults.watch_interval_seconds")
             interval == IF watch_interval.v.t = "null"
                         THEN JInt(DEFAULT_WATCH_INTERVAL_SECONDS)
                         ELSE watch_interval.v
             stop_id == config_as_optional_str(Get(defaults.v, "stop_id"),
                                               "defaults.stop_id")
             latitude == config_as_optional_float(Get(defaults.v, "latitude"),
                                                  "defaults.latitude")
             longitude == config_as_optional_float(Get(defaults.v, "longitude"),
                                                   "defaults.longitude")
             bvg_base_url ==
                 config_as_optional_str(Get(api.v, "bvg_base_url"),
                                        "api.bvg_base_url")
             weather_base_url ==
                 config_as_optional_str(Get(api.v, "weather_base_url"),
                                        "api.weather_base_url")
         IN  IF IsRaise(content) THEN content
             ELSE IF IsRaise(defaults) THEN defaults
             ELSE IF IsRaise(api) THEN api
             ELSE IF IsRaise(watch_interval) THEN watch_interval
             ELSE IF int_value(interval) <= 0
             THEN Raise("ValueError",
                        "defaults.watch_interval_seconds must be greater than 0")
             ELSE IF IsRaise(stop_id) THEN stop_id
             ELSE IF IsRaise(latitude) THEN latitude
             ELSE IF IsRaise(longitude) THEN longitude
             ELSE IF IsRaise(bvg_base_url) THEN bvg_base_url
             ELSE IF IsRaise(weather_base_url) THEN weather_base_url
             ELSE Ok(AppConfig(stop_id.v, latitude.v, longitude.v, interval,
                               PyOr(bvg_base_url.v, JStr(DEFAULT_BVG_BASE_URL)),
                               PyOr(weather_base_url.v,
                                    JStr(DEFAULT_WEATHER_BASE_URL))))

\* save_defaults: the file it leaves, or the error of loading the existing one
save_defaults(stop_id, latitude, longitude, path) ==
    LET existing == load_config(path)
    IN  IF IsRaise(existing) THEN existing
        ELSE Ok(File(render_config(
                    AppConfig(stop_id, latitude, longitude,
                              existing.v.watch_interval_seconds,
                              existing.v.bvg_base_url,
                              existing.v.weather_base_url))))

(***************************************************************************)
(* The responses the calls are made with.  Each field of a stop or of a    *)
(* departure ranges over a pool holding the well-formed values and one     *)
(* value of every other JSON type the field's check tells apart.           *)
(***************************************************************************)
MaxBatch == 2      \* longest list of stops or departures in a response
MaxRemarks == 3    \* longest remarks list of a departure

\* the sequences over S of length at most n
SeqsUpTo(S, n) == UNION {[1..k -> S] : k \in 0..n}

StopObj(id, name, locationType, type, kind, location, distance) ==
    JObj([id |-> id, name |-> name, locationType |-> locationType, type |-> type,
          kind |-> kind, location |-> location, distance |-> distance])

LocationObj(latitude, longitude) ==
    JObj([latitude |-> latitude, longitude |-> longitude])

IdPool == {Absent, JStr(""), JStr("900000100001"), JInt(7)}
NamePool == {JStr("Alexanderplatz"), JStr(""), Null}
LocationTypePool ==
    {Absent, JStr("station"), JStr("STATION"), JStr("Stop"), JStr("bogus"),
     JStr(""), JInt(3)}
TypePool == {Absent, JStr("Station"), JStr("stop"), JStr("BOGUS"), JBool(TRUE)}
KindPool == {Absent, JStr("STATION")}
LatitudePool ==
    {Absent, Null, JBool(TRUE), JInt(52), JFloat(525), JFloat(-915), JStr("52.5"),
     JList(<<>>), EmptyObj, JHuge(1)}
LongitudePool ==
    {Absent, JBool(FALSE), JInt(13), JFloat(134), JStr("13.4"), JNonFinite("nan")}
LocationPool ==
    {Absent, JStr("52.5,13.4"), JList(<<JFloat(525), JFloat(134)>>)}
        \cup {LocationObj(la, lo) : la \in LatitudePool, lo \in LongitudePool}
DistancePool ==
    {Absent, Null, JStr("120"), JBool(TRUE), JInt(120), JInt(0), JInt(-5),
     JFloat(1207), JFloat(-1207), JNonFinite("inf"), JNonFinite("nan"), JHuge(1)}

GoodLocation == LocationObj(JFloat(525), JFloat(134))

\* every shape of the required fields and of the distance, and every shape of
\* the three kind fields
StopObjects ==
    {StopObj(id, name, lt, JStr("Station"), Absent, loc, dist) :
        id \in IdPool, name \in NamePool, lt \in {Absent, JStr("bogus")},
        loc \in LocationPool, dist \in DistancePool}
    \cup
    {StopObj(id, JStr("X"), lt, ty, kd, loc, dist) :
        id \in {JStr("1"), Null}, lt \in LocationTypePool, ty \in TypePool,
        kd \in KindPool, loc \in {GoodLocation, Absent},
        dist \in {Absent, JInt(120)}}

NotAnObject == {Null, JBool(TRUE), JInt(1), JStr("x"), JList(<<>>)}
NotAList == {Null, JBool(FALSE), JInt(1), JStr("x"), EmptyObj}

StopResponses == StopObjects \cup NotAnObject \cup {HttpError}

\* the elements of a list of nearby stops
StopElements ==
    {StopObj(JStr("A"), JStr("Alexanderplatz"), JStr("station"), Absent, Absent,
             GoodLocation, JInt(120)),
     StopObj(JStr("B"), JStr("Bernauer"), Absent, Absent, Absent,
             LocationObj(JInt(52), JInt(13)), JFloat(-1207)),
     StopObj(JStr("C"), JStr("Chausseestr"), Absent, JStr("stop"), Absent,
             GoodLocation, Absent),
     StopObj(JStr("D"), JInt(4), Absent, Absent, Absent, GoodLocation, JInt(5)),
     StopObj(JStr("E"), JStr("Eberswalder"), Absent, Absent, Absent,
             JStr("nowhere"), JInt(5)),
     StopObj(JStr("F"), JStr("Friedrichstr"), Absent, Absent, Absent,
             GoodLocation, JNonFinite("inf")),
     JStr("not-an-object")}

NearbyResponses ==
    {JList(items) : items \in SeqsUpTo(StopElements, MaxBatch)}
        \cup NotAList \cup {HttpError}

DepartureObj(line, direction, when, plannedWhen, delay, platform, remarks) ==
    JObj([line |-> line, direction |-> direction, when |-> when,
          plannedWhen |-> plannedWhen, delay |-> delay, platform |-> platform,
          remarks |-> remarks])

LinePool ==
    {Absent, JStr("U2"), JList(<<JStr("U2")>>), JObj([name |-> JStr("U2")]),
     JObj([name |-> JStr("")]), JObj([name |-> JInt(2)]),
     JObj([product |-> JStr("subway")])}
DirectionPool == {JStr("Ruhleben"), JStr(""), Absent, JInt(1)}
WhenA == "2026-02-08T20:30:00+01:00"
WhenB == "2026-02-08T20:28:00+01:00"
WhenNaive == "2026-02-08T20:31:00"
WhenPool ==
    {Absent, Null, JStr(""), JStr(WhenA), JStr(WhenNaive), JStr("soon"), JInt(0),
     JInt(1770579000), JBool(FALSE)}
PlannedWhenPool == {Absent, JStr(WhenB), JStr("later"), JStr(""), JInt(1770578880)}
DelayPool == {Absent, JInt(60), JStr("60"), JFloat(15)}
PlatformPool == {Absent, JStr("2"), JInt(2)}
RemarkItems ==
    {JObj([summary |-> JStr("A")]), JObj([summary |-> JStr("B")]),
     JObj([bad |-> JInt(1)]), JObj([summary |-> JInt(1)]), JStr("not-an-object")}
RemarksPool ==
    {Absent, JStr("Minor delays"), JObj([summary |-> JStr("A")])}
        \cup {JList(items) : items \in SeqsUpTo(RemarkItems, MaxRemarks)}

\* every shape of the scalar fields, and every shape of the remarks
DepartureObjects ==
    {DepartureObj(line, dir, when, pw, delay, plat, JList(<<>>)) :
        line \in LinePool, dir \in DirectionPool, when \in WhenPool,
        pw \in PlannedWhenPool, delay \in DelayPool, plat \in PlatformPool}
    \cup
    {DepartureObj(JObj([name |-> JStr("U2")]), dir, when, JStr(WhenB), JInt(60),
                  JStr("2"), rem) :
        dir \in {JStr("Ruhleben"), Absent}, when \in {JStr(WhenA), JStr("soon")},
        rem \in RemarksPool}

\* the elements of a list of departures of more than one element
DepartureElements ==
    {DepartureObj(JObj([name |-> JStr("U2")]), JStr("Ruhleben"), JStr(WhenA),
                  Absent, JInt(60), JStr("2"),
                  JList(<<JObj([summary |-> JStr("Minor delays")])>>)),
     DepartureObj(JObj([name |-> JStr("S7")]), JStr("Potsdam"), Absent,
                  JStr(WhenB), Absent, Absent, Absent),
     DepartureObj(JObj([name |-> JStr("M1")]), JInt(1), JStr(WhenA), Absent,
                  Absent, Absent, Absent),
     DepartureObj(JObj([name |-> JStr("M5")]), JStr("Hackescher Markt"), Null,
                  Absent, Absent, Absent, Absent),
     JInt(5)}

DeparturesPayload(items) == JObj([departures |-> items])

DeparturesResponses ==
    {DeparturesPayload(JList(<<d>>)) : d \in DepartureObjects}
        \cup {DeparturesPayload(JList(items)) :
                items \in SeqsUpTo(DepartureElements, MaxBatch)}
        \cup {DeparturesPayload(x) : x \in NotAList \cup {Absent}}
        \cup NotAnObject \cup {HttpError}

\* the `current` object: temperature_2m, apparent_temperature, wind_speed_10m,
\* weather_code, is_day
CurrentObj(temp, apparent, wind, code, day) ==
    JObj([temperature_2m |-> temp, apparent_temperature |-> apparent,
          wind_speed_10m |-> wind, weather_code |-> code, is_day |-> day])

TemperaturePool ==
    {Absent, Null, JInt(4), JFloat(38), JFloat(-25), JBool(TRUE), JStr("3.8"),
     JHuge(1)}
ApparentTemperaturePool ==
    {Absent, Null, JInt(1), JFloat(12), JBool(TRUE), JStr("1.2"), JHuge(1)}
WindSpeedPool == {Absent, JInt(11), JFloat(114), JList(<<>>)}
WeatherCodePool ==
    {Absent, Null, JInt(3), JFloat(35), JFloat(30), JBool(FALSE), JStr("3")}
IsDayPool ==
    {Absent, Null, JBool(TRUE), JBool(FALSE), JInt(0), JInt(1), JInt(2),
     JFloat(10), JStr("1"), JList(<<>>), EmptyObj, JHuge(1)}

CurrentObjects ==
    {CurrentObj(t, a, w, c, d) :
        t \in TemperaturePool, a \in ApparentTemperaturePool,
        w \in WindSpeedPool, c \in WeatherCodePool, d \in IsDayPool}

WeatherPayload(current) == JObj([current |-> current])

WeatherResponses ==
    {WeatherPayload(c) : c \in CurrentObjects \cup NotAnObject \cup {Absent}}
        \cup NotAnObject \cup {HttpError}

\* a command line
Argv(command, help, stop_option, stop_id, latitude, longitude, limit, save, interval) ==
    [command |-> command, help |-> help, stop_option |-> stop_option,
     stop_id |-> stop_id, latitude |-> latitude, longitude |-> longitude,
     limit |-> limit, save |-> save, interval |-> interval]

NoArgv == Argv("", FALSE, "", Null, Null, Null, JInt(10), FALSE, Null)

\* An httpx.Client is "open" or "closed"; "none" stands for None. A BvgClient
\* or WeatherClient is its two attributes: _owns_client and _client.
InjectedClient == "open"
NoClient == [owns_client |-> FALSE, client |-> "none"]
NoClients == [bvg |-> NoClient, weather |-> NoClient]

\* BvgClient.__init__: client or httpx.Client(...)
BvgClient_init(client) ==
    [owns_client |-> client = "none",
     client |-> IF client = "none" THEN "open" ELSE client]

\* WeatherClient.__init__
WeatherClient_init(client) ==
    [owns_client |-> client = "none",
     client |-> IF client = "none" THEN "open" ELSE client]

\* BvgClient.close
BvgClient_close(self) ==
    IF self.owns_client THEN [self EXCEPT !.client = "closed"] ELSE self

\* WeatherClient.close
WeatherClient_close(self) ==
    IF self.owns_client THEN [self EXCEPT !.client = "closed"] ELSE self

\* An exit that closes the transit client and forgets the weather client.
closed_transit_only(opened) ==
    [bvg |-> IF opened.bvg = NoClient THEN NoClient
             ELSE BvgClient_close(opened.bvg),
     weather |-> opened.weather]

\* __exit__ of each client that was constructed: self.close()
Closed(opened) ==
    [bvg |-> IF opened.bvg = NoClient THEN NoClient
             ELSE BvgClient_close(opened.bvg),
     weather |-> IF opened.weather = NoClient THEN NoClient
                 ELSE WeatherClient_close(opened.weather)]

Calls ==
    ({"stop"} \X StopResponses) \cup ({"nearby"} \X NearbyResponses)
        \cup ({"departures"} \X DeparturesResponses)
        \cup ({"current_weather"} \X WeatherResponses)

(***************************************************************************)
(* The state machine: a client is constructed, on its own httpx.Client or   *)
(* on one the caller hands in, one method is called on one response, and   *)
(* the client is closed.                                                   *)
(***************************************************************************)
\* no command runs: the client is called on its own
NoCommand ==
    /\ argv = NoArgv /\ config_file = NoFile /\ cfg = NoResult
    /\ cli_pc = "library" /\ refresh_seconds = 0 /\ visible_stops = <<>>
    /\ refreshes = 0 /\ console = {} /\ exit_code = 0

Init ==
    /\ \E c \in Calls : op = c[1] /\ response = c[2]
    /\ \E client \in {"none", InjectedClient} :
          clients = IF op = "current_weather"
                    THEN [bvg |-> NoClient, weather |-> WeatherClient_init(client)]
                    ELSE [bvg |-> BvgClient_init(client), weather |-> NoClient]
    /\ result = NoResult
    /\ pc = "call"
    /\ NoCommand

ClientNearby ==
    /\ pc = "call" /\ op = "nearby"
    /\ result' = nearby(response)
    /\ pc' = "done"
    /\ UNCHANGED <<op, response, cliVars>>

ClientStop ==
    /\ pc = "call" /\ op = "stop"
    /\ result' = stop(response)
    /\ pc' = "done"
    /\ UNCHANGED <<op, response, cliVars>>

ClientDepartures ==
    /\ pc = "call" /\ op = "departures"
    /\ result' = departures(response)
    /\ pc' = "done"
    /\ UNCHANGED <<op, response, cliVars>>

ClientCurrentWeather ==
    /\ pc = "call" /\ op = "current_weather"
    /\ result' = current_weather(response)
    /\ pc' = "done"
    /\ UNCHANGED <<op, response, cliVars>>

\* the caller closes the client: close(), or __exit__ of its with block
ClientClose ==
    /\ cli_pc = "library" /\ pc = "done"
    /\ clients' = Closed(clients)
    /\ pc' = "closed"
    /\ UNCHANGED <<op, response, result, argv, config_file, cfg, cli_pc,
                   refresh_seconds, visible_stops, refreshes, console, exit_code>>

Next ==
    \/ ClientNearby \/ ClientStop \/ ClientDepartures \/ ClientCurrentWeather
    \/ ClientClose

Spec == Init /\ [][Next]_vars

(***************************************************************************)
(* cli.py: the commands nearby, show and watch.                            *)
(***************************************************************************)
MaxStops == 3
MaxRefreshes == 2

\* the option names each command declares (typer.Option), with --help
DeclaredOptions(command) ==
    CASE command = "nearby" ->
            {"--latitude", "-a", "--longitude", "-o", "--limit", "-l",
             "--distance", "-d", "--save", "--no-save", "--help"}
      [] command = "show" ->
            {"--stop-id", "-s", "--latitude", "-a", "--longitude", "-o",
             "--results", "-r", "--duration", "-d", "--help"}
      [] command = "watch" ->
            {"--stop-id", "-s", "--latitude", "-a", "--longitude", "-o",
             "--results", "-r", "--duration", "-d", "--interval", "-i",
             "--help"}

\* the sort key of _sort_stops_by_distance for a stop without a distance
NoDistanceKey == 1000000000

distance_key(a_stop) ==
    IF a_stop.distance_m.t # "null" THEN a_stop.distance_m.v ELSE NoDistanceKey

\* sorted(stops, key=...): a stable sort, here by insertion from the left
RECURSIVE insert_by_key(_, _)
insert_by_key(sorted, a_stop) ==
    IF sorted = <<>> THEN <<a_stop>>
    ELSE IF distance_key(sorted[Len(sorted)]) <= distance_key(a_stop)
    THEN Append(sorted, a_stop)
    ELSE Append(insert_by_key(SubSeq(sorted, 1, Len(sorted) - 1), a_stop),
                sorted[Len(sorted)])

RECURSIVE sort_stops_by_distance(_)
sort_stops_by_distance(stops) ==
    IF stops = <<>> THEN <<>>
    ELSE insert_by_key(
             sort_stops_by_distance(SubSeq(stops, 1, Len(stops) - 1)),
             stops[Len(stops)])

\* stops[:limit] for limit >= 1
first_stops(stops, limit) ==
    SubSeq(stops, 1, IF limit < Len(stops) THEN limit ELSE Len(stops))

\* _resolve_stop_id: stop_id or cfg.default_stop_id
resolve_stop_id(stop_id, config) == PyOr(stop_id, config.default_stop_id)

(***************************************************************************)
(* The command lines, config files and upstream replies of the commands.   *)
(***************************************************************************)
Coordinates == {<<Null, Null>>, <<JFloat(525), JFloat(134)>>}
OneCoordinate == <<JFloat(525), Null>>
StopArguments ==
    {<<"", Null>>, <<"--stop-id", JStr("900")>>, <<"-s", JStr("900")>>,
     <<"--stop", JStr("900")>>}

CommandLines ==
    {Argv("nearby", FALSE, "", Null, c[1], c[2], JInt(limit), save, Null) :
        c \in Coordinates, limit \in {0, 1, 2}, save \in BOOLEAN}
    \cup
    {Argv("show", FALSE, st[1], st[2], c[1], c[2], JInt(10), FALSE, Null) :
        st \in StopArguments, c \in Coordinates \cup {OneCoordinate}}
    \cup
    {Argv("watch", FALSE, st[1], st[2], c[1], c[2], JInt(10), FALSE, i) :
        st \in StopArguments, c \in Coordinates \cup {OneCoordinate},
        i \in {Null, JInt(0), JInt(2)}}
    \cup
    {Argv(command, TRUE, "", Null, Null, Null, JInt(10), FALSE, Null) :
        command \in {"nearby", "show", "watch"}}

ConfigFiles ==
    {NoFile,
     File(render_config(AppConfig(JStr("900"), JFloat(525), JFloat(134),
                                  JInt(5), JStr(DEFAULT_BVG_BASE_URL),
                                  JStr("http://w")))),
     File(<<"[defaults]", "\n", "stop_id", " = ", "\"", "\"", "\n">>),
     File(<<"[defaults]", "\n", "watch_interval_seconds", " = ", "true", "\n">>),
     File(<<"[defaults]", "\n", "watch_interval_seconds", " = ", "0", "\n">>),
     File(<<"[defaults]", "\n", "watch_interval_seconds", " = ", "-", "5",
            "\n">>),
     File(<<"[api]", "\n", "bvg_base_url", " = ", "\"", "http://h/", "\\", "n",
            "\"", "\n">>),
     File(<<"defaults", " = ", "3", "\n">>)}

NearbyStop(id, location, distance) ==
    StopObj(JStr(id), JStr("Alexanderplatz"), JStr("stop"), Absent, Absent,
            location, distance)

NearbyElements ==
    {NearbyStop("900", GoodLocation, JInt(120)),
     NearbyStop("a\nb", LocationObj(JFloat(-5), JInt(13)), JInt(50)),
     NearbyStop("a\"b\\c", GoodLocation, Absent),
     NearbyStop("far", GoodLocation, JInt(2000000000)),
     NearbyStop("tie", GoodLocation, JInt(120)),
     JInt(5)}

NearbyReplies ==
    {JList(items) : items \in SeqsUpTo(NearbyElements, MaxStops)}
        \cup {EmptyObj, HttpError}

StopReplies ==
    {NearbyStop("900", GoodLocation, Absent), JInt(1),
     NearbyStop("900", LocationObj(JHuge(1), JFloat(134)), Absent), HttpError}

DeparturesReplies ==
    {DeparturesPayload(JList(<<>>)),
     DeparturesPayload(JList(<<DepartureObj(
         JObj([name |-> JStr("U2")]), JStr("Ruhleben"), JStr(WhenA), Absent,
         JInt(60), JStr("2"), Absent)>>)),
     JList(<<>>)}

WeatherReplies ==
    {WeatherPayload(CurrentObj(JFloat(38), Absent, Absent, Absent, JInt(0))),
     EmptyObj, HttpError}


(***************************************************************************)
(* Vocabulary of the properties                                            *)
(***************************************************************************)
(* The state machine of one command, from the parsing of its command line  *)
(* to its exit.  A request is handed to the client method, which maps the  *)
(* reply (the Client actions above); Ctrl-C is delivered while watch waits *)
(* for a reply, renders or sleeps.                                         *)
(***************************************************************************)
InitCli ==
    /\ argv \in CommandLines
    /\ config_file \in ConfigFiles
    /\ cfg = NoResult
    /\ cli_pc = "main"
    /\ refresh_seconds = 0
    /\ visible_stops = <<>>
    /\ clients = NoClients
    /\ refreshes = 0
    /\ console = {}
    /\ exit_code = 0
    /\ op = "none" /\ response = Absent /\ result = NoResult /\ pc = "idle"

\* the command ends: typer.Exit, a usage error, an uncaught exception or return
ExitWith(code, lines) ==
    /\ cli_pc' = "exited"
    /\ exit_code' = code
    /\ console' = console \cup lines

\* a client method is called, and the upstream will answer with some reply
Request(method, replies) ==
    /\ op' = method
    /\ \E reply \in replies : response' = reply
    /\ result' = NoResult
    /\ pc' = "call"

ApiErrors == {"BvgApiError", "WeatherApiError"}
ErrorLine(raised) ==
    IF raised.v.kind \in ApiErrors THEN "Error: " \o raised.v.msg
    ELSE "Traceback: " \o raised.v.kind

\* click parses the command line before the command function runs
Main ==
    /\ cli_pc = "main"
    /\ IF /\ argv.stop_option # ""
          /\ argv.stop_option \notin DeclaredOptions(argv.command)
       THEN ExitWith(2, {"No such option: " \o argv.stop_option})
       ELSE IF argv.help
       THEN ExitWith(0, {"Usage"} \cup DeclaredOptions(argv.command))
       ELSE IF \/ argv.limit.v < 1
               \/ (argv.interval # Null /\ argv.interval.v < 1)
       THEN ExitWith(2, {"Invalid value"})
       ELSE cli_pc' = "command" /\ UNCHANGED <<console, exit_code>>
    /\ UNCHANGED <<apiVars, argv, config_file, cfg, refresh_seconds,
                   visible_stops, clients, refreshes>>

LoadConfigSafe ==
    /\ cli_pc = "command"
    /\ cfg' = load_config(config_file)
    /\ IF IsRaise(cfg') THEN ExitWith(2, {"Config error: " \o cfg'.v.msg})
       ELSE cli_pc' = argv.command /\ UNCHANGED <<console, exit_code>>
    /\ UNCHANGED <<apiVars, argv, config_file, refresh_seconds, visible_stops,
                   clients, refreshes>>

\* nearby, up to the request (cli.py:61-65)
NearbyRequest ==
    /\ cli_pc = "nearby"
    /\ LET lat == IF argv.latitude # Null THEN argv.latitude
                  ELSE cfg.v.default_latitude
           lon == IF argv.longitude # Null THEN argv.longitude
                  ELSE cfg.v.default_longitude
       IN  IF lat = Null \/ lon = Null
           THEN /\ ExitWith(2, {"Latitude/longitude are required."})
                /\ UNCHANGED <<apiVars, clients>>
           ELSE /\ clients' = [clients EXCEPT !.bvg = BvgClient_init("none")]
                /\ Request("nearby", NearbyReplies)
                /\ cli_pc' = "nearby_request"
                /\ UNCHANGED <<console, exit_code>>
    /\ UNCHANGED <<argv, config_file, cfg, refresh_seconds, visible_stops,
                   refreshes>>

\* nearby, from the answer on (cli.py:66-80)
NearbyShow ==
    /\ cli_pc = "nearby_request" /\ pc = "done"
    /\ clients' = Closed(clients)
    /\ IF IsRaise(result)
       THEN /\ ExitWith(1, {ErrorLine(result)})
            /\ UNCHANGED <<visible_stops, config_file>>
       ELSE LET sorted_stops == sort_stops_by_distance(result.v)
                visible == first_stops(sorted_stops, argv.limit.v)
                saved == save_defaults(visible[1].id,
                                       visible[1].location.latitude,
                                       visible[1].location.longitude,
                                       config_file)
            IN  /\ visible_stops' = visible
                /\ IF argv.save /\ visible # <<>>
                   THEN IF IsRaise(saved)
                        THEN /\ ExitWith(1, {"nearby table", ErrorLine(saved)})
                             /\ UNCHANGED config_file
                        ELSE /\ config_file' = saved.v
                             /\ ExitWith(0, {"nearby table", "Saved defaults"})
                   ELSE /\ ExitWith(0, {"nearby table"})
                        /\ UNCHANGED config_file
    /\ UNCHANGED <<apiVars, argv, cfg, refresh_seconds, refreshes>>

ShowStart ==
    /\ cli_pc = "show"
    /\ IF ~Truthy(resolve_stop_id(argv.stop_id, cfg.v))
       THEN ExitWith(2, {"Stop ID is required."})
       ELSE cli_pc' = "fetch" /\ UNCHANGED <<console, exit_code>>
    /\ UNCHANGED <<apiVars, argv, config_file, cfg, refresh_seconds,
                   visible_stops, clients, refreshes>>

WatchStart ==
    /\ cli_pc = "watch"
    /\ LET interval == IF argv.interval # Null THEN argv.interval
                       ELSE cfg.v.watch_interval_seconds
       IN  IF ~Truthy(resolve_stop_id(argv.stop_id, cfg.v))
           THEN ExitWith(2, {"Stop ID is required."})
                    /\ UNCHANGED refresh_seconds
           ELSE /\ refresh_seconds' = int_value(interval)
                /\ IF int_value(interval) <= 0
                   THEN ExitWith(2, {"Interval must be greater than 0."})
                   ELSE cli_pc' = "fetch" /\ UNCHANGED <<console, exit_code>>
    /\ UNCHANGED <<apiVars, argv, config_file, cfg, visible_stops, clients,
                   refreshes>>

\* _fetch_snapshot: the transit client is opened and asked for the stop
FetchStop ==
    /\ cli_pc = "fetch"
    /\ clients' = [bvg |-> BvgClient_init("none"), weather |-> NoClient]
    /\ Request("stop", StopReplies)
    /\ cli_pc' = "stop_request"
    /\ UNCHANGED <<argv, config_file, cfg, refresh_seconds, visible_stops,
                   refreshes, console, exit_code>>

FetchDepartures ==
    /\ cli_pc = "stop_request" /\ pc = "done" /\ IsOk(result)
    /\ Request("departures", DeparturesReplies)
    /\ cli_pc' = "departures_request"
    /\ UNCHANGED <<argv, config_file, cfg, refresh_seconds, visible_stops,
                   clients, refreshes, console, exit_code>>

\* the transit client is closed, the weather coordinates are resolved and the
\* weather client is opened and asked
FetchWeather ==
    /\ cli_pc = "departures_request" /\ pc = "done" /\ IsOk(result)
    /\ IF (argv.latitude = Null) # (argv.longitude = Null)
       THEN /\ clients' = Closed(clients)
            /\ ExitWith(2, {"Provide both --latitude and --longitude or neither."})
            /\ UNCHANGED apiVars
       ELSE /\ clients' = [bvg |-> BvgClient_close(clients.bvg),
                            weather |-> WeatherClient_init("none")]
            /\ Request("current_weather", WeatherReplies)
            /\ cli_pc' = "weather_request"
            /\ UNCHANGED <<console, exit_code>>
    /\ UNCHANGED <<argv, config_file, cfg, refresh_seconds, visible_stops,
                   refreshes>>

RequestStates == {"stop_request", "departures_request", "weather_request"}

\* A handler that goes back to fetching after an error.
FetchFailedRetrying ==
    /\ cli_pc \in RequestStates /\ pc = "done" /\ IsRaise(result)
    /\ clients' = Closed(clients)
    /\ console' = console \cup {ErrorLine(result)}
    /\ cli_pc' = "fetch"
    /\ UNCHANGED <<apiVars, argv, config_file, cfg, refresh_seconds,
                   visible_stops, refreshes, exit_code>>

\* a request raised: except (BvgApiError, WeatherApiError) prints and exits
\* with 1; any other exception leaves the command uncaught
FetchFailed ==
    /\ cli_pc \in RequestStates /\ pc = "done" /\ IsRaise(result)
    /\ clients' = Closed(clients)
    /\ ExitWith(1, {ErrorLine(result)})
    /\ UNCHANGED <<apiVars, argv, config_file, cfg, refresh_seconds,
                   visible_stops, refreshes>>

FetchDone ==
    /\ cli_pc = "weather_request" /\ pc = "done" /\ IsOk(result)
    /\ clients' = Closed(clients)
    /\ cli_pc' = "render"
    /\ UNCHANGED <<apiVars, argv, config_file, cfg, refresh_seconds,
                   visible_stops, refreshes, console, exit_code>>

\* show prints the panel and returns; watch updates the live view
Render ==
    /\ cli_pc = "render"
    /\ IF argv.command = "show" THEN ExitWith(0, {"panel"})
       ELSE /\ console' = console \cup {"panel"}
            /\ cli_pc' = "sleep"
            /\ UNCHANGED exit_code
    /\ UNCHANGED <<apiVars, argv, config_file, cfg, refresh_seconds,
                   visible_stops, clients, refreshes>>

\* time.sleep(refresh_seconds) returns and the loop goes round
Sleep ==
    /\ cli_pc = "sleep"
    /\ cli_pc' = "fetch"
    /\ refreshes' = IF refreshes < MaxRefreshes THEN refreshes + 1 ELSE refreshes
    /\ UNCHANGED <<apiVars, argv, config_file, cfg, refresh_seconds,
                   visible_stops, clients, console, exit_code>>

InWatchLoop ==
    /\ argv.command = "watch"
    /\ cli_pc \in {"fetch", "render", "sleep"} \cup RequestStates

\* Ctrl-C in the watch loop: except KeyboardInterrupt prints and returns
KeyboardInterrupt ==
    /\ InWatchLoop
    /\ cli_pc \in RequestStates => pc = "call"
    /\ clients' = Closed(clients)
    /\ ExitWith(0, {"Stopped watch."})
    /\ pc' = IF pc = "call" THEN "interrupted" ELSE pc
    /\ UNCHANGED <<op, response, result, argv, config_file, cfg,
                   refresh_seconds, visible_stops, refreshes>>

NextCli ==
    \/ Main \/ LoadConfigSafe
    \/ NearbyRequest \/ NearbyShow
    \/ ShowStart \/ WatchStart
    \/ FetchStop \/ FetchDepartures \/ FetchWeather \/ FetchFailed \/ FetchDone
    \/ Render \/ Sleep \/ KeyboardInterrupt
    \/ ClientNearby \/ ClientStop \/ ClientDepartures \/ ClientCurrentWeather

SpecCli == InitCli /\ [][NextCli]_vars

\* the package in either use: its clients called by a program of the caller,
\* or one of its commands run from the command line
SpecPackage == (Init \/ InitCli) /\ [][Next \/ NextCli]_vars

(***************************************************************************)
Returned(method) == pc = "done" /\ op = method
IsJson(x) == x.t # "httperror"
\* a JSON number: an integer or a real literal, booleans excluded
IsJsonNumber(x) == x.t \in {"int", "hugeint", "float", "nonfinite"}
HasField(data, key) == IF IsDict(data) THEN key \in DOMAIN data.v ELSE FALSE
\* the object without the given fields
Without(data, keys) ==
    [t |-> "obj", v |-> [k \in DOMAIN data.v \ keys |-> data.v[k]]]

(***************************************************************************)
(* C1: for every JSON value handed to a mapping operation, the operation   *)
(* returns domain records or fails with the error kind of its upstream     *)
(* (BvgApiError for nearby, stop and departures, WeatherApiError for       *)
(* current_weather); no other kind of failure escapes.                     *)
(***************************************************************************)
C1_OnlyApiErrorEscapes ==
    (pc = "done" /\ IsJson(response) /\ IsRaise(result))
        => result.v.kind = IF op = "current_weather" THEN "WeatherApiError"
                           ELSE "BvgApiError"

(***************************************************************************)
(* C2: nearby fails when the top-level value is not a list; departures     *)
(* fails when the value is not an object or its departures field is        *)
(* missing or not a list; otherwise, when every element maps, the result   *)
(* holds one record per element in input order, and when any element is    *)
(* malformed the whole call fails (there is no partial list).              *)
(***************************************************************************)
C2_NearbyAllOrNothing ==
    (Returned("nearby") /\ IsJson(response)) =>
        IF ~IsList(response) THEN IsRaise(result)
        ELSE LET items == response.v
             IN  IF \A i \in 1..Len(items) : IsOk(parse_stop(items[i]))
                 THEN /\ IsOk(result)
                      /\ Len(result.v) = Len(items)
                      /\ \A i \in 1..Len(items) : result.v[i] = parse_stop(items[i]).v
                 ELSE IsRaise(result)

C2_DeparturesAllOrNothing ==
    (Returned("departures") /\ IsJson(response)) =>
        IF ~IsDict(response) THEN IsRaise(result)
        ELSE IF ~HasField(response, "departures") THEN IsRaise(result)
        ELSE IF ~IsList(response.v.departures) THEN IsRaise(result)
        ELSE LET items == response.v.departures.v
             IN  IF \A i \in 1..Len(items) : IsOk(parse_departure(items[i]))
                 THEN /\ IsOk(result)
                      /\ Len(result.v) = Len(items)
                      /\ \A i \in 1..Len(items) :
                            result.v[i] = parse_departure(items[i]).v
                 ELSE IsRaise(result)

\* C2: both batch operations are all-or-nothing.
C2_BatchAllOrNothing == C2_NearbyAllOrNothing /\ C2_DeparturesAllOrNothing

\* a list of two departures, the first well-formed and the second with a
\* non-string direction: the call failed
C2_Witness ==
    /\ Returned("departures") /\ IsDict(response)
    /\ HasField(response, "departures") /\ IsList(Get(response, "departures"))
    /\ LET items == response.v.departures.v
       IN  /\ Len(items) = 2
           /\ IsOk(parse_departure(items[1]))
           /\ IsDict(items[2]) /\ Get(items[2], "direction").t = "int"
    /\ IsRaise(result)

(***************************************************************************)
(* C3: stop succeeds for every object whose id and name are strings (the   *)
(* empty string included) and whose location is an object with numeric     *)
(* latitude and longitude, whatever the other fields hold, and the Stop    *)
(* carries exactly the source id, name and coordinates (an integer widened *)
(* to the float of the same value, no clamping).                           *)
(***************************************************************************)
WellFormedStop(data) ==
    /\ IsDict(data)
    /\ IsStr(Get(data, "id")) /\ IsStr(Get(data, "name"))
    /\ IsDict(Get(data, "location"))
    /\ IsJsonNumber(Get(Get(data, "location"), "latitude"))
    /\ IsJsonNumber(Get(Get(data, "location"), "longitude"))

\* the float a JSON number denotes
SameNumber(float, number) ==
    CASE number.t = "int" -> float = JFloat(10 * number.v)
      [] number.t \in {"float", "nonfinite"} -> float = number
      [] OTHER -> FALSE

C3_WellFormedStopMaps ==
    (Returned("stop") /\ WellFormedStop(response)) =>
        /\ IsOk(result)
        /\ result.v.id = Get(response, "id")
        /\ result.v.name = Get(response, "name")
        /\ SameNumber(result.v.location.latitude,
                      Get(Get(response, "location"), "latitude"))
        /\ SameNumber(result.v.location.longitude,
                      Get(Get(response, "location"), "longitude"))

(***************************************************************************)
(* C4: the kind of every Stop is "station" or "stop"; a kind source of     *)
(* "station" or "stop" in any letter case yields the lower-case value, any *)
(* other string, a missing field or a non-string value yields "stop"; the  *)
(* kind never makes the mapping fail.                                      *)
(* As stated, the source is the field `kind` of the input.                 *)
(***************************************************************************)
StationSpellings == {"station", "STATION", "Station"}
StopSpellings == {"stop", "STOP", "Stop"}
\* what the claim says a kind source maps to
KindOf(source) ==
    IF IsStr(source)
    THEN IF source.v \in StationSpellings THEN "station" ELSE "stop"
    ELSE "stop"

C4_KindFromKindField ==
    (Returned("stop") /\ IsOk(result)) =>
        result.v.kind = KindOf(Get(response, "kind"))

\* the JSON values Python takes for false
Falsy(x) ==
    \/ x.t = "null"
    \/ x = JBool(FALSE) \/ x = JInt(0) \/ x = JFloat(0) \/ x = JStr("")
    \/ x = JList(<<>>) \/ x = EmptyObj

KindFields == {"locationType", "type", "kind"}

\* C4 as the code has it: the kind is "station" or "stop", folded from the
\* source the code reads: `locationType`, or `type` when `locationType`
\* is missing, null, "" or otherwise falsy; a field `kind` is not read.
C4_KindFromLocationType ==
    /\ Returned("stop") =>
        /\ IsOk(result) =>
              /\ result.v.kind \in {"station", "stop"}
              /\ result.v.kind =
                    IF Falsy(Get(response, "locationType"))
                    THEN KindOf(Get(response, "type"))
                    ELSE KindOf(Get(response, "locationType"))
        /\ (IsDict(response) /\ IsRaise(result)) =>
              result = stop(Without(response, KindFields))
    /\ (Returned("nearby") /\ IsOk(result)) =>
            \A i \in 1..Len(result.v) : result.v[i].kind \in {"station", "stop"}

\* locationType is the empty string and type says "Station": a station
C4_Witness ==
    /\ Returned("stop") /\ IsOk(result)
    /\ Get(response, "locationType") = JStr("")
    /\ Get(response, "type") = JStr("Station")
    /\ Get(response, "kind") = JStr("STATION")
    /\ result.v.kind = "station"

(***************************************************************************)
(* C5: distance_m is None when the source distance is absent or not        *)
(* numeric, and otherwise the source number truncated toward zero          *)
(* (120.7 gives 120); a non-numeric distance never makes the mapping fail. *)
(***************************************************************************)
\* the integer a finite JSON number truncates to
TruncatesTo(int, number) ==
    CASE number.t \in {"int", "hugeint"} -> int = number
      [] number.t = "float" ->
            /\ int.t = "int"
            /\ IF number.v >= 0
               THEN 10 * int.v <= number.v /\ number.v < 10 * (int.v + 1)
               ELSE 10 * int.v >= number.v /\ number.v > 10 * (int.v - 1)
      [] OTHER -> FALSE

C5_DistanceTruncated ==
    (Returned("stop") /\ IsDict(response)) =>
        LET distance == Get(response, "distance")
        IN  IF IsJsonNumber(distance)
            THEN IsOk(result) => TruncatesTo(result.v.distance_m, distance)
            ELSE /\ IsOk(result) => result.v.distance_m = Null
                 /\ IsRaise(result) => result = stop(Without(response, {"distance"}))

(***************************************************************************)
(* C6: in every Stop returned by stop or nearby, distance_m is None or a   *)
(* nonnegative integer, for every input (a negative source distance        *)
(* included).                                                              *)
(***************************************************************************)
NonNegativeOrNone(distance_m) ==
    \/ distance_m = Null
    \/ distance_m.t = "int" /\ distance_m.v >= 0
    \/ distance_m.t = "hugeint" /\ distance_m.v >= 0

C6_DistanceNonNegative ==
    /\ (Returned("stop") /\ IsOk(result)) =>
            NonNegativeOrNone(result.v.distance_m)
    /\ (Returned("nearby") /\ IsOk(result)) =>
            \A i \in 1..Len(result.v) : NonNegativeOrNone(result.v[i].distance_m)

\* C6 as the code has it: distance_m is None or an integer with the sign of the
\* source distance, so it is nonnegative whenever the source distance is not
\* negative, and a negative source distance gives its truncation toward zero
\* (-5 gives -5, -120.7 gives -120).
IsNegative(number) ==
    IF number.t \in {"int", "float", "hugeint"} THEN number.v < 0 ELSE FALSE

DistanceKeepsSign(distance_m, source) ==
    /\ distance_m.t \in {"null", "int", "hugeint"}
    /\ IF IsNegative(source)
       THEN TruncatesTo(distance_m, source) /\ distance_m.v <= 0
       ELSE NonNegativeOrNone(distance_m)

\* C6 (amended): every returned Stop keeps the sign of its source distance.
C6_DistanceSignOfSource ==
    /\ (Returned("stop") /\ IsOk(result)) =>
            DistanceKeepsSign(result.v.distance_m, Get(response, "distance"))
    /\ (Returned("nearby") /\ IsOk(result)) =>
            \A i \in 1..Len(result.v) :
                DistanceKeepsSign(result.v[i].distance_m,
                                  Get(response.v[i], "distance"))

\* a list of nearby stops whose second stop has the distance -120.7
C6_Witness ==
    /\ Returned("nearby") /\ IsOk(result) /\ Len(result.v) = 2
    /\ Get(response.v[2], "distance") = JFloat(-1207)
    /\ result.v[2].distance_m = JInt(-120)

(***************************************************************************)
(* C7: stop fails with BvgApiError whenever location is missing or not an  *)
(* object, or latitude or longitude is missing or a JSON value that is not *)
(* a number (null, boolean, string, list or object); the message names the *)
(* field path stop.location, stop.location.latitude or                     *)
(* stop.location.longitude.                                                *)
(***************************************************************************)
NotANumber(x) == x.t \in {"null", "bool", "str", "list", "obj"}

\* the messages that name a location field the claim calls malformed
LocationMessages(data) ==
    LET location == Get(data, "location")
    IN  IF ~IsDict(location) THEN {"stop.location must be an object"}
        ELSE (IF NotANumber(Get(location, "latitude"))
              THEN {"stop.location.latitude must be a number"} ELSE {})
             \cup
             (IF NotANumber(Get(location, "longitude"))
              THEN {"stop.location.longitude must be a number"} ELSE {})

BadLocation(data) ==
    LET location == Get(data, "location")
    IN  \/ ~IsDict(location)
        \/ NotANumber(Get(location, "latitude"))
        \/ NotANumber(Get(location, "longitude"))

C7_BadLocationFails ==
    (Returned("stop") /\ IsDict(response) /\ BadLocation(response)) =>
        /\ IsRaise(result)
        /\ result.v.kind = "BvgApiError"
        /\ (IsStr(Get(response, "id")) /\ IsStr(Get(response, "name"))) =>
              result.v.msg \in LocationMessages(response)

(***************************************************************************)
(* C8: when both `when` and `plannedWhen` are present the departure time   *)
(* is parsed from `when`; when only `plannedWhen` is present it is parsed  *)
(* from `plannedWhen`; when neither is present the departure, and so the   *)
(* whole departures call, fails.                                           *)
(***************************************************************************)
\* a field that is there and not null
Present(data, key) == HasField(data, key) /\ Get(data, key).t # "null"

\* the departures call was made on a list of exactly one departure object
OneDeparture ==
    /\ Returned("departures") /\ IsDict(response)
    /\ IsList(Get(response, "departures"))
    /\ Len(Get(response, "departures").v) = 1
    /\ IsDict(Get(response, "departures").v[1])

TheDeparture == Get(response, "departures").v[1]

\* the departure time is the one the given field denotes, or the call failed
\* because the field denotes none
ParsedFrom(field) ==
    LET source == Get(TheDeparture, field)
        parses == IF IsStr(source) THEN IsOk(py_fromisoformat(source.v)) ELSE FALSE
    IN  IF parses
        THEN IsOk(result) => result.v[1].when = py_fromisoformat(source.v).v
        ELSE IsRaise(result)

C8_WhenWinsIfPresent ==
    OneDeparture =>
        IF Present(TheDeparture, "when") THEN ParsedFrom("when")
        ELSE IF Present(TheDeparture, "plannedWhen") THEN ParsedFrom("plannedWhen")
        ELSE IsRaise(result)

\* C8 as the code has it: `when` wins only if it is truthy; a `when` that is present but
\* falsy ("", 0, false) gives way to `plannedWhen` like an absent one.
C8_WhenWinsIfTruthy ==
    OneDeparture =>
        IF Present(TheDeparture, "when") /\ ~Falsy(Get(TheDeparture, "when"))
        THEN ParsedFrom("when")
        ELSE IF Present(TheDeparture, "plannedWhen") THEN ParsedFrom("plannedWhen")
        ELSE IsRaise(result)

\* both fields hold a timestamp and the departure carries the one of `when`
C8_Witness ==
    /\ OneDeparture /\ IsOk(result)
    /\ Get(TheDeparture, "when") = JStr(WhenA)
    /\ Get(TheDeparture, "plannedWhen") = JStr(WhenB)
    /\ result.v[1].when.minute = 1230

(***************************************************************************)
(* C9: for every value of `remarks`, the remarks of the departure are      *)
(* exactly the summary strings of the list items that are objects with a   *)
(* string summary, in their original order; a non-list value gives the     *)
(* empty sequence; no value of `remarks` makes the departure or the call   *)
(* fail.                                                                   *)
(***************************************************************************)
HasSummary(item) ==
    IF IsDict(item) THEN HasField(item, "summary") /\ item.v.summary.t = "str"
    ELSE FALSE

\* remarks is the subsequence of the summaries of the items that have one
SummariesInOrder(remarks, source) ==
    IF ~IsList(source) THEN remarks = <<>>
    ELSE LET kept == {i \in 1..Len(source.v) : HasSummary(source.v[i])}
             rank(i) == Cardinality({j \in kept : j <= i})
         IN  /\ Len(remarks) = Cardinality(kept)
             /\ \A i \in kept : remarks[rank(i)] = source.v[i].v.summary.v

C9_RemarksLenient ==
    OneDeparture =>
        /\ IsOk(result) =>
              SummariesInOrder(result.v[1].remarks, Get(TheDeparture, "remarks"))
        /\ IsRaise(result) =>
              result = departures(DeparturesPayload(
                          JList(<<Without(TheDeparture, {"remarks"})>>)))

\* remarks [{"summary":"A"}, {"bad":1}, "not-an-object"] gave exactly <<"A">>
C9_Witness ==
    /\ OneDeparture /\ IsOk(result)
    /\ Get(TheDeparture, "remarks") =
          JList(<<JObj([summary |-> JStr("A")]), JObj([bad |-> JInt(1)]),
                  JStr("not-an-object")>>)
    /\ result.v[1].remarks = <<"A">>

(***************************************************************************)
(* C10: the line name of a departure is line.name when `line` is an object *)
(* with a string name, and "?" in every other case; no value of `line`     *)
(* makes the departure mapping fail.                                       *)
(***************************************************************************)
C10_LineNameOrQuestionMark ==
    OneDeparture =>
        /\ IsOk(result) =>
              LET line == Get(TheDeparture, "line")
                  named == IF IsDict(line)
                           THEN HasField(line, "name") /\ line.v.name.t = "str"
                           ELSE FALSE
              IN  result.v[1].line_name = IF named THEN line.v.name.v ELSE "?"
        /\ IsRaise(result) =>
              result = departures(DeparturesPayload(
                          JList(<<Without(TheDeparture, {"line"})>>)))

\* a line object whose name is not a string gave "?"
C10_Witness ==
    /\ OneDeparture /\ IsOk(result)
    /\ Get(TheDeparture, "line") = JObj([name |-> JInt(2)])
    /\ result.v[1].line_name = "?"

(***************************************************************************)
(* C11: current_weather fails with WeatherApiError when the input is not   *)
(* an object, when `current` is absent or not an object, or when           *)
(* current.temperature_2m is absent or not a JSON number; in every         *)
(* successful result temperature_c is the float of the source              *)
(* temperature_2m.                                                         *)
(***************************************************************************)
TheCurrent == Get(response, "current")

HasCurrent == IF IsDict(response) THEN IsDict(TheCurrent) ELSE FALSE

BadWeatherShape ==
    IF ~HasCurrent THEN TRUE
    ELSE ~IsJsonNumber(Get(TheCurrent, "temperature_2m"))

C11_TemperatureRequired ==
    (Returned("current_weather") /\ IsJson(response)) =>
        /\ BadWeatherShape =>
              (IsRaise(result) /\ result.v.kind = "WeatherApiError")
        /\ IsOk(result) =>
              SameNumber(result.v.temperature_c,
                         Get(TheCurrent, "temperature_2m"))

(***************************************************************************)
(* C12: for apparent_temperature, wind_speed_10m and weather_code an       *)
(* absent field yields None and is never the reason of a failure, a field  *)
(* present with a value of another JSON type than expected makes           *)
(* current_weather fail with WeatherApiError; weather_code takes JSON      *)
(* integers only (3.5 fails), the two numeric fields take integers and     *)
(* reals and yield the float of the same value.                            *)
(***************************************************************************)
OptionalNumbers == {"apparent_temperature", "wind_speed_10m"}

\* the CurrentWeather attribute a source field is mapped to
MappedFrom(weather, field) ==
    CASE field = "apparent_temperature" -> weather.apparent_temperature_c
      [] field = "wind_speed_10m" -> weather.wind_speed_kmh
      [] field = "weather_code" -> weather.weather_code

IsJsonInteger(x) == x.t \in {"int", "hugeint"}

FailsAsWeatherError == IsRaise(result) /\ result.v.kind = "WeatherApiError"

C12_AbsentVersusMalformed ==
    (Returned("current_weather") /\ HasCurrent) =>
        /\ \A field \in OptionalNumbers \cup {"weather_code"} :
              ~HasField(TheCurrent, field) =>
                  /\ IsOk(result) => MappedFrom(result.v, field) = Null
                  /\ IsRaise(result) =>
                        result.v.msg \notin
                            {"current." \o field \o " must be a number",
                             "current." \o field \o " must be an integer"}
        /\ \A field \in OptionalNumbers :
              LET value == Get(TheCurrent, field)
              IN  /\ (Present(TheCurrent, field) /\ ~IsJsonNumber(value))
                        => FailsAsWeatherError
                  /\ (IsJsonNumber(value) /\ IsOk(result))
                        => SameNumber(MappedFrom(result.v, field), value)
                  /\ (IsJsonNumber(value) /\ IsRaise(result))
                        => /\ result.v.kind = "WeatherApiError"
                           /\ result.v.msg #
                                 "current." \o field \o " must be a number"
        /\ LET value == Get(TheCurrent, "weather_code")
           IN  /\ (Present(TheCurrent, "weather_code") /\ ~IsJsonInteger(value))
                     => FailsAsWeatherError
               /\ (IsJsonInteger(value) /\ IsOk(result))
                     => result.v.weather_code = value

(***************************************************************************)
(* C13: is_day absent yields None, a boolean yields itself, an integer     *)
(* yields true exactly when it is nonzero, and a float, string, list or    *)
(* object makes current_weather fail; the payload                          *)
(* {"current":{"temperature_2m":3.8,"is_day":0}} maps to temperature 3.8,  *)
(* is_day False and None for the three other fields.                       *)
(***************************************************************************)
IsDayMessage == "current.is_day must be a boolean"

CoercedIsDay(value) ==
    CASE value.t = "null" -> Null
      [] value.t = "bool" -> value
      [] value.t = "int" -> JBool(value.v # 0)
      [] value.t = "hugeint" -> JBool(TRUE)

ScenarioPayload ==
    WeatherPayload(CurrentObj(JFloat(38), Absent, Absent, Absent, JInt(0)))

C13_IsDayCoercion ==
    (Returned("current_weather") /\ HasCurrent) =>
        LET value == Get(TheCurrent, "is_day")
            others == current_weather(
                          WeatherPayload(Without(TheCurrent, {"is_day"})))
        IN  /\ value.t \in {"float", "nonfinite", "str", "list", "obj"} =>
                  result = IF IsRaise(others) THEN others
                           ELSE Raise("WeatherApiError", IsDayMessage)
            /\ value.t \in {"null", "bool", "int", "hugeint"} =>
                  /\ IsOk(result) => result.v.is_day = CoercedIsDay(value)
                  /\ IsRaise(result) => result = others
            /\ response = ScenarioPayload =>
                  result = Ok([temperature_c |-> JFloat(38),
                               apparent_temperature_c |-> Null,
                               wind_speed_kmh |-> Null,
                               weather_code |-> Null,
                               is_day |-> JBool(FALSE)])

\* the scenario payload was mapped, and so was an integer other than 0 and 1
C13_Witness ==
    /\ Returned("current_weather") /\ HasCurrent /\ IsOk(result)
    /\ \/ response = ScenarioPayload /\ result.v.is_day = JBool(FALSE)
       \/ Get(TheCurrent, "is_day") = JInt(2) /\ result.v.is_day = JBool(TRUE)

(***************************************************************************)
(* C14: every shape failure of the transit and weather mappers carries a   *)
(* message made of the dotted path of the offending field and the expected *)
(* type or shape, and two different offending fields never give the same   *)
(* message: a bad timestamp taken from plannedWhen is not reported with    *)
(* the message the same value gives in `when`.                             *)
(***************************************************************************)
FieldPaths ==
    {"stop", "stop.id", "stop.name", "stop.location", "stop.location.latitude",
     "stop.location.longitude", "stop.distance", "stops", "departures",
     "departure", "departure.line", "departure.direction", "departure.when",
     "departure.plannedWhen", "departure.delay", "departure.platform",
     "departure.remarks", "weather", "current", "current.temperature_2m",
     "current.apparent_temperature", "current.wind_speed_10m",
     "current.weather_code", "current.is_day"}

ExpectedShapes ==
    {" must be a string", " must be a number", " must be an integer",
     " must be a boolean", " must be an object", " must be a list",
     " must be an ISO datetime string"}

NamesFieldAndShape(msg) ==
    \E path \in FieldPaths, expected \in ExpectedShapes : msg = path \o expected

\* the timestamp of the departure is taken from plannedWhen and is malformed
BadPlannedWhen ==
    /\ OneDeparture /\ IsRaise(result)
    /\ IsStr(Get(TheDeparture, "direction"))
    /\ ~Truthy(Get(TheDeparture, "when"))
    /\ Truthy(Get(TheDeparture, "plannedWhen"))

\* the same departure with the malformed value in `when` and no plannedWhen
SameValueInWhen ==
    With(Without(TheDeparture, {"plannedWhen"}), "when",
         Get(TheDeparture, "plannedWhen"))

C14_MessagesNamePath ==
    /\ (pc = "done" /\ IsJson(response) /\ IsRaise(result)
            /\ result.v.kind \in {"BvgApiError", "WeatherApiError"})
          => NamesFieldAndShape(result.v.msg)
    /\ BadPlannedWhen =>
          result.v.msg #
              departures(DeparturesPayload(JList(<<SameValueInWhen>>))).v.msg

(***************************************************************************)
(* C15: in nearby, show and watch a BvgApiError or WeatherApiError raised  *)
(* by a request ends the command with the error printed and exit status 1  *)
(* (a config error exits with 2), and once it was raised no request is     *)
(* issued any more: no retry, no next refresh.                             *)
(***************************************************************************)
ApiErrorRaised ==
    /\ cli_pc # "library" /\ pc = "done" /\ IsRaise(result)
    /\ result.v.kind \in ApiErrors

ConfigErrorExit ==
    (cli_pc = "exited" /\ IsRaise(cfg)) =>
        (exit_code = 2 /\ op = "none" /\ ~ApiErrorRaised)

ComesBefore(stops, a, b) ==
    LET da == stops[a].distance_m
        db == stops[b].distance_m
    IN  IF da.t # "null" /\ db.t # "null"
        THEN da.v < db.v \/ (da.v = db.v /\ a < b)
        ELSE IF da.t = "null" /\ db.t = "null" THEN a < b
        ELSE db.t = "null"

ClaimedOrder(stops) ==
    LET n == Len(stops)
        order == CHOOSE f \in [1..n -> 1..n] :
                    \A i, j \in 1..n : i < j => ComesBefore(stops, f[i], f[j])
    IN  [i \in 1..n |-> stops[order[i]]]

NearbyDisplayed ==
    /\ argv.command = "nearby" /\ cli_pc = "exited"
    /\ op = "nearby" /\ pc = "done" /\ IsOk(result)

C16_NearestFirst ==
    NearbyDisplayed =>
        visible_stops = first_stops(ClaimedOrder(result.v), argv.limit.v)

(***************************************************************************)
(* C17: after nearby --save displayed at least one stop, load_config on    *)
(* the written file returns the id, latitude and longitude of the first    *)
(* displayed stop, and the watch_interval_seconds, bvg_base_url and        *)
(* weather_base_url that load_config returned before the save; when no     *)
(* stop is displayed the file is not written.                              *)
(***************************************************************************)
SavedDefaults == cli_pc = "exited" /\ "Saved defaults" \in console

RoundTrip ==
    SavedDefaults =>
        LET loaded == load_config(config_file)
        IN  /\ IsOk(loaded)
            /\ loaded.v.default_stop_id = visible_stops[1].id
            /\ loaded.v.default_latitude = visible_stops[1].location.latitude
            /\ loaded.v.default_longitude = visible_stops[1].location.longitude
            /\ loaded.v.watch_interval_seconds = cfg.v.watch_interval_seconds
            /\ loaded.v.bvg_base_url = cfg.v.bvg_base_url
            /\ loaded.v.weather_base_url = cfg.v.weather_base_url

C17_SaveLoadRoundTrip ==
    /\ []RoundTrip
    /\ [][config_file' # config_file =>
             (argv.save /\ visible_stops' # <<>>)]_vars

(***************************************************************************)
(* C18: load_config never returns a watch_interval_seconds of zero or      *)
(* less: a missing file or field gives 30, a non-positive value raises     *)
(* ValueError; the interval of the watch loop is greater than 0 in every   *)
(* state in which the loop runs.                                           *)
(***************************************************************************)
\* the watch_interval_seconds the file states: Null when it states none,
\* Absent when the file cannot be read as a table of defaults
StatedInterval(file) ==
    IF ~file.exists THEN Null
    ELSE LET content == toml_loads(file.text)
         IN  IF IsRaise(content) THEN Absent
             ELSE IF ~HasField(content.v, "defaults") THEN Null
             ELSE IF ~IsDict(Get(content.v, "defaults")) THEN Absent
             ELSE Get(Get(content.v, "defaults"), "watch_interval_seconds")

C18_IntervalPositive ==
    /\ IsOk(cfg) => int_value(cfg.v.watch_interval_seconds) > 0
    /\ (IsOk(cfg) /\ ~SavedDefaults /\ StatedInterval(config_file) = Null)
          => cfg.v.watch_interval_seconds = JInt(30)
    /\ (cfg # NoResult /\ StatedInterval(config_file).t = "int")
          => (StatedInterval(config_file).v <= 0
                 <=> (/\ IsRaise(cfg) /\ cfg.v.kind = "ValueError"
                      /\ cli_pc = "exited" /\ exit_code = 2))
    /\ InWatchLoop => refresh_seconds > 0

\* the loop has gone round with the interval of the config file
C18_Witness ==
    /\ InWatchLoop /\ refreshes > 0
    /\ argv.interval = Null /\ StatedInterval(config_file) = JInt(5)
    /\ refresh_seconds = 5

(***************************************************************************)
(* C19: watch repeats fetch, render, sleep; Ctrl-C at any point of the     *)
(* cycle prints "Stopped watch." and ends the command with status 0; the   *)
(* loop ends in no other way than by Ctrl-C or by an API error.            *)
(***************************************************************************)
EndedByInterrupt == "Stopped watch." \in console /\ exit_code = 0
EndedByApiError == ApiErrorRaised /\ exit_code = 1

C19_WatchEndsByInterruptOrApiError ==
    /\ []("Stopped watch." \in console => (cli_pc = "exited" /\ exit_code = 0))
    /\ [][(InWatchLoop /\ cli_pc' # cli_pc) =>
             IF cli_pc' = "exited" THEN EndedByInterrupt' \/ EndedByApiError'
             ELSE <<cli_pc, cli_pc'>> \in
                     {<<"fetch", "stop_request">>,
                      <<"stop_request", "departures_request">>,
                      <<"departures_request", "weather_request">>,
                      <<"weather_request", "render">>,
                      <<"render", "sleep">>, <<"sleep", "fetch">>}]_vars

(***************************************************************************)
(* C20: show and watch take the stop id under the option name --stop:      *)
(* with --stop <id> and no default stop in the config the command runs for *)
(* that stop and, when its requests succeed, exits with status 0; --stop   *)
(* is listed in the help of each command.                                  *)
(***************************************************************************)
StopAliasGiven ==
    /\ argv.command \in {"show", "watch"} /\ argv.stop_option = "--stop"
    /\ cli_pc = "exited"

C20_StopAliasAccepted ==
    /\ StopAliasGiven =>
          /\ "No such option: --stop" \notin console
          /\ IsOk(cfg) => op # "none"
    /\ (argv.command \in {"show", "watch"} /\ argv.help /\ cli_pc = "exited")
          => "--stop" \in console

(***************************************************************************)
(* C21: the timestamp source of a departure is chosen by falsiness only,   *)
(* before any type or parse check: `plannedWhen` is consulted exactly when *)
(* `when` is absent, null or otherwise falsy; a `when` that is present and *)
(* not falsy but is no string, or does not parse as ISO-8601, fails the    *)
(* departure mapping even if `plannedWhen` holds a valid timestamp.        *)
(***************************************************************************)
\* the field the timestamp is taken from
TimestampSource ==
    IF Falsy(Get(TheDeparture, "when")) THEN "plannedWhen" ELSE "when"

\* the field that plays no part: its value changes nothing in the outcome
IgnoredTimestampField ==
    IF TimestampSource = "when" THEN "plannedWhen" ELSE "when"

\* a value that parse_datetime turns into a timestamp
ValidTimestamp(value) ==
    IF IsStr(value) THEN IsOk(py_fromisoformat(value.v)) ELSE FALSE

C21_SourceChosenByFalsiness ==
    OneDeparture =>
        /\ ParsedFrom(TimestampSource)
        /\ result = departures(DeparturesPayload(
                        JList(<<Without(TheDeparture, {IgnoredTimestampField})>>)))
        /\ (/\ ~Falsy(Get(TheDeparture, "when"))
            /\ ~ValidTimestamp(Get(TheDeparture, "when"))) =>
               /\ IsRaise(result)
               /\ IsStr(Get(TheDeparture, "direction")) =>
                     result.v.msg =
                        IF IsStr(Get(TheDeparture, "when"))
                        THEN "Invalid datetime in departure: "
                                \o Get(TheDeparture, "when").v
                        ELSE "departure.when must be an ISO datetime string"

\* `when` is "soon", `plannedWhen` a valid timestamp, and the call failed on
\* `when`
C21_Witness ==
    /\ OneDeparture /\ IsRaise(result)
    /\ Get(TheDeparture, "when") = JStr("soon")
    /\ Get(TheDeparture, "plannedWhen") = JStr(WhenB)
    /\ IsStr(Get(TheDeparture, "direction"))
    /\ result.v.msg = "Invalid datetime in departure: soon"

(***************************************************************************)
(* C22: every HTTP client that nearby, show or watch creates is closed     *)
(* before the command ends, on the success path and on every error path;   *)
(* within one snapshot fetch the transit client is closed before the       *)
(* weather client is opened, and the weather request is issued only after  *)
(* the stop request and the departures request have both succeeded; a      *)
(* client handed in by the caller is never closed by BvgClient.close or    *)
(* WeatherClient.close.                                                    *)
(***************************************************************************)
ClientNames == {"bvg", "weather"}
CommandRuns == cli_pc # "library"
NoClientOpen == \A c \in ClientNames : clients[c].client # "open"
Injected(c) == clients[c] # NoClient /\ ~clients[c].owns_client

\* a request of the command starts: the method called changes
RequestOrder ==
    (CommandRuns /\ op' # op) =>
        CASE op' = "departures" -> op = "stop" /\ pc = "done" /\ IsOk(result)
          [] op' = "current_weather" ->
                op = "departures" /\ pc = "done" /\ IsOk(result)
          [] OTHER -> TRUE

C22_ClientLifecycle ==
    /\ [](CommandRuns => \A c \in ClientNames : ~Injected(c))
    /\ [](cli_pc \in {"exited", "fetch", "render", "sleep"} => NoClientOpen)
    /\ [](CommandRuns /\ clients.weather # NoClient =>
             clients.bvg.client = "closed")
    /\ [][RequestOrder]_vars
    /\ [](\A c \in ClientNames : Injected(c) => clients[c].client = InjectedClient)

\* show or watch ended on a failed weather request, both clients made and closed
C22_Witness ==
    /\ cli_pc = "exited" /\ exit_code = 1
    /\ op = "current_weather" /\ IsRaise(result)
    /\ clients.bvg = [owns_client |-> TRUE, client |-> "closed"]
    /\ clients.weather = [owns_client |-> TRUE, client |-> "closed"]

====
